---- MODULE Spec2Model ----
(***************************************************************************)
(* The scheduled-analysis bot of src/main.py as a state machine.           *)
(*                                                                         *)
(* Three discord.ext.tasks loops (hourly_analysis, four_hour_analysis,     *)
(* volume_spike_monitor), the on_ready event and the commands (analisis,  *)
(* top, alerts, status) are asyncio coroutines: each runs atomically from  *)
(* one await to the next, so every action below is one such stretch of     *)
(* code.  The                                                              *)
(* collaborators (market fetch, analyses, ranker, detectors, channel       *)
(* send) are the environment: every call either raises or returns a value  *)
(* drawn from a small set.                                                 *)
(***************************************************************************)
EXTENDS Integers, Sequences, FiniteSets, TLC

\* ------------------------------------------------------------------ bounds

\* Longest ranked list, longest detector result and largest clock value when
\* one coroutine runs at a time.
MaxRanked == 7
MaxAlerts == 2
MaxTime == 3
\* The same when the coroutines interleave.
SmallRanked == 1
SmallAlerts == 1
SmallTime == 1
\* Most symbols in the snapshot of the top command.
MaxCoins == 15
SmallCoins == 1
\* Largest clock value when the commands run among the jobs.
CommandTime == 2

\* ------------------------------------------------------- program constants

\* altcoin_count < 5
HourlyLimit == 5
\* ranked_opportunities[:3]
PremiumLimit == 3
\* ranked_opportunities[:3] of the manual analysis
ManualLimit == 3
\* asyncio.sleep(2) of the hourly job
HourlyDelay == 2
\* asyncio.sleep(3) of the four-hour job
FourHourDelay == 3
\* asyncio.sleep(2) of the manual analysis
ManualDelay == 2
\* sorted(...)[:10]
TopLimit == 10
\* alert['volume_increase'] >= 300
SpikeThreshold == 300

\* --------------------------------------------------------------- processes

Jobs == {"hourly", "four_hour", "volume"}
Commands == {"manual", "top", "alerts", "status"}
Procs == Jobs \cup Commands \cup {"ready"}

\* Symbols a market snapshot or an analysis result may hold.
Tracked == {"BTC", "ETH"}
\* Arguments of the analisis command: no coin, a tracked coin, an unknown one.
NoCoin == "-"
\* No alerts or top command in progress, and no status embed built.
NoArg == "-"
NoEmbed == [timestamp |-> 0, uptime |-> FALSE, last |-> <<>>, tasks |-> <<>>]
CoinArgs == {NoCoin, "btc", "XRP"}

VARIABLES
  running,               \* Loop.is_running() of each job
  active,                \* number of runs of each job in progress
  pc,                    \* position of each coroutine
  outcome,               \* how the run in progress has ended so far
  trace,                 \* what the run in progress did so far, in order: its
                         \* collaborator calls, sends and waits
  channel,               \* bot.get_channel(CHANNEL_ID) of the run: found or None
  market_data,           \* the run's snapshot: the set of its symbols
  john_results,          \* hourly run: symbols with a non-empty john result
  alpha_results,         \* hourly run: symbols with a non-empty alpha result
  ranked_opportunities,  \* the run's ranked list
  idx,                   \* position of the run's for loop in its list
  altcoin_count,         \* hourly run: altcoin_count
  volume_alerts,         \* volume run: detect_volume_spikes() result
  whale_alerts,          \* volume run: detect_whale_movements() result
  coin,                  \* argument of the analisis command in progress
  alert_type,            \* argument of the alerts command in progress
  timeframe,             \* argument of the top command in progress
  top_market_data,       \* top command: its snapshot, symbol by symbol
  sorted_coins,          \* top command: sorted_coins
  embed,                 \* status command: the fields of its embed
  last_analysis_time,    \* the global dict: key -> time
  start_time,            \* hasattr(bot, 'start_time')
  now                    \* datetime.datetime.now(), non-decreasing

vars == <<running, active, pc, outcome, trace, channel, market_data, john_results,
          alpha_results, ranked_opportunities, idx, altcoin_count, volume_alerts,
          whale_alerts, coin, alert_type, timeframe, top_market_data, sorted_coins,
          embed, last_analysis_time, start_time, now>>

\* ------------------------------------------------------------ channel log

Msg(kind, symbol) == [kind |-> kind, symbol |-> symbol, delay |-> 0]
Failed(kind) == [kind |-> "failed", symbol |-> kind, delay |-> 0]
Sleep(d) == [kind |-> "sleep", symbol |-> "-", delay |-> d]
Call(name) == [kind |-> "call", symbol |-> name, delay |-> 0]

IsSend(e) == e.kind \notin {"failed", "sleep", "call"}

\* The messages of a log, waits and failed sends left trace.
RECURSIVE Sends(_)
Sends(log) ==
  IF log = <<>> THEN <<>>
  ELSE IF IsSend(Head(log)) THEN <<Head(log)>> \o Sends(Tail(log))
  ELSE Sends(Tail(log))

\* The messages of one kind in a log.
RECURSIVE OfKind(_, _)
OfKind(log, kind) ==
  IF log = <<>> THEN <<>>
  ELSE IF Head(log).kind = kind THEN <<Head(log)>> \o OfKind(Tail(log), kind)
  ELSE OfKind(Tail(log), kind)

\* ----------------------------------------------------------------- inputs

Alt(i) == [symbol |-> "ALT" \o ToString(i), score |-> 100 - i]
Btc(i) == [symbol |-> "BTC", score |-> 100 - i]

\* A ranked list of length len: altcoins in rank order, and BTC at position p
\* (p = 0: no BTC).
Ranked(len, p) ==
  [i \in 1..len |-> IF i = p THEN Btc(i) ELSE Alt(IF p # 0 /\ i > p THEN i - 1 ELSE i)]

\* What rank_opportunities may return: up to n opportunities, BTC anywhere or
\* absent.
RankedLists(n) == UNION {{Ranked(len, p) : p \in 0..len} : len \in 0..n}

\* What the market fetch may return: any set of tracked symbols, empty included.
Snapshots == SUBSET Tracked
\* market_data before the fetch has returned.
NotFetched == {"(not fetched)"}
\* What an analysis may return, as the set of symbols with a non-empty result:
\* the jobs look up BTC alone, the rest goes to the ranker and the formatter.
AnalysisResults == {{}, {"BTC"}}

\* The time a call of datetime.now() returns: later than the last one read,
\* up to the largest clock value T.
Clock(T) == IF now < T THEN now + 1 ELSE now

\* --------------------------------------------------------------- helpers

\* The dict replaced by one holding the new entry alone.
PutFresh(f, k, v) == [x \in {k} |-> v]

\* f[k] = v
Put(f, k, v) == [x \in DOMAIN f \cup {k} |-> IF x = k THEN v ELSE f[x]]

Goto(p, l) == pc' = [pc EXCEPT ![p] = l]
Log(p, e) == trace' = [trace EXCEPT ![p] = Append(@, e)]
\* The coroutine returns: o says how the run went.
End(p, o) == pc' = [pc EXCEPT ![p] = "done"] /\ outcome' = [outcome EXCEPT ![p] = o]

\* A coroutine's locals go with its frame when it returns or raises.
NoLocals(p) ==
  /\ channel' = [channel EXCEPT ![p] = FALSE]
  /\ market_data' = [market_data EXCEPT ![p] = NotFetched]
  /\ ranked_opportunities' = [ranked_opportunities EXCEPT ![p] = <<>>]
  /\ idx' = [idx EXCEPT ![p] = 0]
  /\ trace' = [trace EXCEPT ![p] = <<>>]
  /\ outcome' = [outcome EXCEPT ![p] = "none"]
  /\ john_results' = IF p = "hourly" THEN {} ELSE john_results
  /\ alpha_results' = IF p = "hourly" THEN {} ELSE alpha_results
  /\ altcoin_count' = IF p = "hourly" THEN 0 ELSE altcoin_count
  /\ volume_alerts' = IF p = "volume" THEN <<>> ELSE volume_alerts
  /\ whale_alerts' = IF p = "volume" THEN <<>> ELSE whale_alerts
  /\ coin' = IF p = "manual" THEN NoCoin ELSE coin
  /\ alert_type' = IF p = "alerts" THEN NoArg ELSE alert_type
  /\ timeframe' = IF p = "top" THEN NoArg ELSE timeframe
  /\ top_market_data' = IF p = "top" THEN <<>> ELSE top_market_data
  /\ sorted_coins' = IF p = "top" THEN <<>> ELSE sorted_coins
  /\ embed' = IF p = "status" THEN NoEmbed ELSE embed

sched == <<running, active>>
cmd == <<alert_type, timeframe, top_market_data, sorted_coins, embed>>
globals == <<last_analysis_time, start_time, now>>
analyses == <<john_results, alpha_results>>
lists == <<ranked_opportunities, idx, altcoin_count>>
detections == <<volume_alerts, whale_alerts>>

Init ==
  /\ running = [j \in Jobs |-> FALSE]
  /\ active = [j \in Jobs |-> 0]
  /\ pc = [p \in Procs |-> "idle"]
  /\ outcome = [p \in Procs |-> "none"]
  /\ trace = [p \in Procs |-> <<>>]
  /\ channel = [p \in Procs |-> FALSE]
  /\ market_data = [p \in Procs |-> NotFetched]
  /\ john_results = {}
  /\ alpha_results = {}
  /\ ranked_opportunities = [p \in Procs |-> <<>>]
  /\ idx = [p \in Procs |-> 0]
  /\ altcoin_count = 0
  /\ volume_alerts = <<>>
  /\ whale_alerts = <<>>
  /\ coin = NoCoin
  /\ alert_type = NoArg
  /\ timeframe = NoArg
  /\ top_market_data = <<>>
  /\ sorted_coins = <<>>
  /\ embed = NoEmbed
  /\ last_analysis_time = <<>>
  /\ start_time = FALSE
  /\ now = 0

\* ------------------------------------------------------------- scheduler

\* A loop that begins an iteration whenever its interval is over.
LoopRunning(j) == running[j]

\* tasks.loop awaits one call of the coroutine before it schedules the next:
\* an iteration begins only when the loop is running and no call is in progress.
LoopIdle(j) == running[j] /\ active[j] = 0

\* The first lines of every job: look the channel up, return when it is None.
GetChannel(j, first) ==
  /\ LoopIdle(j)
  /\ active' = [active EXCEPT ![j] = @ + 1]
  /\ \E c \in BOOLEAN :
       /\ channel' = [channel EXCEPT ![j] = c]
       /\ pc' = [pc EXCEPT ![j] = IF c THEN first ELSE "done"]
       /\ outcome' = [outcome EXCEPT ![j] = IF c THEN "none" ELSE "nochannel"]
  /\ trace' = [trace EXCEPT ![j] = <<>>]
  /\ UNCHANGED <<running, market_data, analyses, lists, detections, coin, cmd, globals>>

\* The coroutine returned: the loop sleeps until its next iteration.
LoopReturn(j) ==
  /\ pc[j] = "done"
  /\ pc' = [pc EXCEPT ![j] = "idle"]
  /\ active' = [active EXCEPT ![j] = @ - 1]
  /\ NoLocals(j)
  /\ UNCHANGED <<running, globals>>

\* An exception left the coroutine: the loop's task ends with it, unless it is
\* one of the connection errors the loop retries after a backoff.
LoopError(j) ==
  /\ pc[j] = "raised"
  /\ pc' = [pc EXCEPT ![j] = "idle"]
  /\ active' = [active EXCEPT ![j] = @ - 1]
  /\ \E retried \in BOOLEAN : running' = [running EXCEPT ![j] = retried]
  /\ NoLocals(j)
  /\ UNCHANGED globals

\* ----------------------------------------------------------- hourly job

\* if 'BTC' in market_data: ... if btc_john or btc_alpha:
BtcReportDue(m, john, alpha) == "BTC" \in m /\ ("BTC" \in john \/ "BTC" \in alpha)

\* The count compared with <= instead of <.
HourlyEligibleOneMore(opportunity, count) ==
  opportunity.symbol # "BTC" /\ count <= HourlyLimit

\* BTC not excluded.
HourlyEligibleAny(opportunity, count) == count < HourlyLimit

\* if opportunity.get('symbol') != 'BTC' and altcoin_count < 5:
HourlyEligible(opportunity, count) == opportunity.symbol # "BTC" /\ count < HourlyLimit

HourlyStart == GetChannel("hourly", "fetch")

HourlyFetch ==
  /\ pc["hourly"] = "fetch"
  /\ Log("hourly", Call("fetch"))
  /\ \/ /\ Goto("hourly", "handler")
        /\ UNCHANGED market_data
     \/ \E m \in Snapshots :
          /\ market_data' = [market_data EXCEPT !["hourly"] = m]
          /\ Goto("hourly", IF m = {} THEN "unavailable" ELSE "john")
  /\ UNCHANGED <<sched, outcome, channel, analyses, lists, detections, coin, cmd, globals>>

\* The return after the message left out: the run goes on to the analyses.
HourlyUnavailableNoReturn ==
  /\ pc["hourly"] = "unavailable"
  /\ \/ Log("hourly", Msg("unavailable", "-")) /\ Goto("hourly", "john")
     \/ Log("hourly", Failed("unavailable")) /\ Goto("hourly", "handler")
  /\ UNCHANGED <<sched, outcome, channel, market_data, analyses, lists, detections, coin, cmd,
                 globals>>

HourlyUnavailable ==
  /\ pc["hourly"] = "unavailable"
  /\ \/ Log("hourly", Msg("unavailable", "-")) /\ End("hourly", "unavailable")
     \/ /\ Log("hourly", Failed("unavailable")) /\ Goto("hourly", "handler")
        /\ UNCHANGED outcome
  /\ UNCHANGED <<sched, channel, market_data, analyses, lists, detections, coin, cmd, globals>>

HourlyJohn ==
  /\ pc["hourly"] = "john"
  /\ Log("hourly", Call("john"))
  /\ \/ Goto("hourly", "handler") /\ UNCHANGED john_results
     \/ \E r \in AnalysisResults : john_results' = r /\ Goto("hourly", "alpha")
  /\ UNCHANGED <<sched, outcome, channel, market_data, alpha_results, lists,
                 detections, coin, cmd, globals>>

HourlyAlpha ==
  /\ pc["hourly"] = "alpha"
  /\ Log("hourly", Call("alpha"))
  /\ \/ Goto("hourly", "handler") /\ UNCHANGED alpha_results
     \/ \E r \in AnalysisResults :
          /\ alpha_results' = r
          /\ Goto("hourly", IF BtcReportDue(market_data["hourly"], john_results, r)
                            THEN "btc_report" ELSE "rank")
  /\ UNCHANGED <<sched, outcome, channel, market_data, john_results, lists,
                 detections, coin, cmd, globals>>

HourlyBtcReport ==
  /\ pc["hourly"] = "btc_report"
  /\ \/ Log("hourly", Msg("btc_report", "BTC")) /\ Goto("hourly", "btc_sleep")
     \/ Log("hourly", Failed("btc_report")) /\ Goto("hourly", "handler")
  /\ UNCHANGED <<sched, outcome, channel, market_data, analyses, lists, detections,
                 coin, cmd, globals>>

HourlyBtcSleep ==
  /\ pc["hourly"] = "btc_sleep"
  /\ Log("hourly", Sleep(HourlyDelay))
  /\ Goto("hourly", "rank")
  /\ UNCHANGED <<sched, outcome, channel, market_data, analyses, lists, detections,
                 coin, cmd, globals>>

HourlyRank(n) ==
  /\ pc["hourly"] = "rank"
  /\ Log("hourly", Call("rank"))
  /\ \/ /\ Goto("hourly", "handler")
        /\ UNCHANGED lists
     \/ \E r \in RankedLists(n) :
          /\ ranked_opportunities' = [ranked_opportunities EXCEPT !["hourly"] = r]
          /\ idx' = [idx EXCEPT !["hourly"] = 1]
          /\ altcoin_count' = 0
          /\ Goto("hourly", "loop")
  /\ UNCHANGED <<sched, outcome, channel, market_data, analyses, detections,
                 coin, cmd, globals>>

HourlyLoop ==
  /\ pc["hourly"] = "loop"
  /\ LET list == ranked_opportunities["hourly"]
         i == idx["hourly"]
     IN \/ /\ i > Len(list)
           /\ Goto("hourly", "summary")
           /\ UNCHANGED <<trace, idx>>
        \/ /\ i <= Len(list)
           /\ ~HourlyEligible(list[i], altcoin_count)
           /\ idx' = [idx EXCEPT !["hourly"] = i + 1]
           /\ UNCHANGED <<pc, trace>>
        \/ /\ i <= Len(list)
           /\ HourlyEligible(list[i], altcoin_count)
           /\ \/ Log("hourly", Msg("alert", list[i].symbol)) /\ Goto("hourly", "alert_sleep")
              \/ Log("hourly", Failed("alert")) /\ Goto("hourly", "handler")
           /\ UNCHANGED idx
  /\ UNCHANGED <<sched, outcome, channel, market_data, analyses, ranked_opportunities,
                 altcoin_count, detections, coin, cmd, globals>>

\* The wait after an alert left out.
HourlyAlertNoSleep ==
  /\ pc["hourly"] = "alert_sleep"
  /\ altcoin_count' = altcoin_count + 1
  /\ idx' = [idx EXCEPT !["hourly"] = @ + 1]
  /\ Goto("hourly", "loop")
  /\ UNCHANGED <<sched, outcome, trace, channel, market_data, analyses,
                 ranked_opportunities, detections, coin, cmd, globals>>

HourlyAlertSleep ==
  /\ pc["hourly"] = "alert_sleep"
  /\ Log("hourly", Sleep(HourlyDelay))
  /\ altcoin_count' = altcoin_count + 1
  /\ idx' = [idx EXCEPT !["hourly"] = @ + 1]
  /\ Goto("hourly", "loop")
  /\ UNCHANGED <<sched, outcome, channel, market_data, analyses, ranked_opportunities,
                 detections, coin, cmd, globals>>

\* The time recorded before the overview is sent, so also when the send fails.
HourlySummaryHasty(T) ==
  /\ pc["hourly"] = "summary"
  /\ now' = Clock(T)
  /\ last_analysis_time' = Put(last_analysis_time, "hourly", Clock(T))
  /\ \/ Log("hourly", Msg("summary", "-")) /\ End("hourly", "ok")
     \/ /\ Log("hourly", Failed("summary"))
        /\ Goto("hourly", "handler")
        /\ UNCHANGED outcome
  /\ UNCHANGED <<sched, channel, market_data, analyses, lists, detections, coin, cmd,
                 start_time>>

\* The overview is sent; then last_analysis_time["hourly"] = datetime.now().
HourlySummary(T) ==
  /\ pc["hourly"] = "summary"
  /\ \/ /\ Log("hourly", Msg("summary", "-"))
        /\ now' = Clock(T)
        /\ last_analysis_time' = Put(last_analysis_time, "hourly", Clock(T))
        /\ End("hourly", "ok")
     \/ /\ Log("hourly", Failed("summary"))
        /\ Goto("hourly", "handler")
        /\ UNCHANGED <<outcome, last_analysis_time, now>>
  /\ UNCHANGED <<sched, channel, market_data, analyses, lists, detections, coin, cmd,
                 start_time>>

\* except Exception as e: ... if channel: await channel.send(...)
\* A failure of this send is raised inside the handler and leaves the coroutine.
HourlyHandler ==
  /\ pc["hourly"] = "handler"
  /\ IF channel["hourly"]
     THEN \/ Log("hourly", Msg("error", "-")) /\ End("hourly", "error")
          \/ /\ Log("hourly", Failed("error"))
             /\ pc' = [pc EXCEPT !["hourly"] = "raised"]
             /\ outcome' = [outcome EXCEPT !["hourly"] = "error"]
     ELSE End("hourly", "error") /\ UNCHANGED trace
  /\ UNCHANGED <<sched, channel, market_data, analyses, lists, detections, coin, cmd, globals>>

\* -------------------------------------------------------- four-hour job

\* The first n items of a list: list[:n].
Top(list, n) == SubSeq(list, 1, IF Len(list) < n THEN Len(list) ELSE n)

\* for opportunity in ranked_opportunities[:3]
Premium(list) == Top(list, PremiumLimit)

FourHourStart == GetChannel("four_hour", "fetch")

\* if not market_data: return.  The except clause of this job only prints.
FourHourFetch ==
  /\ pc["four_hour"] = "fetch"
  /\ Log("four_hour", Call("fetch"))
  /\ \/ End("four_hour", "error") /\ UNCHANGED market_data
     \/ \E m \in Snapshots :
          /\ market_data' = [market_data EXCEPT !["four_hour"] = m]
          /\ IF m = {} THEN End("four_hour", "unavailable")
             ELSE Goto("four_hour", "john") /\ UNCHANGED outcome
  /\ UNCHANGED <<sched, channel, analyses, lists, detections, coin, cmd, globals>>

FourHourJohn ==
  /\ pc["four_hour"] = "john"
  /\ Log("four_hour", Call("john"))
  /\ \/ End("four_hour", "error")
     \/ Goto("four_hour", "alpha") /\ UNCHANGED outcome
  /\ UNCHANGED <<sched, channel, market_data, analyses, lists, detections, coin, cmd,
                 globals>>

FourHourAlpha ==
  /\ pc["four_hour"] = "alpha"
  /\ Log("four_hour", Call("alpha"))
  /\ \/ End("four_hour", "error")
     \/ Goto("four_hour", "rank") /\ UNCHANGED outcome
  /\ UNCHANGED <<sched, channel, market_data, analyses, lists, detections, coin, cmd,
                 globals>>

FourHourRank(n) ==
  /\ pc["four_hour"] = "rank"
  /\ Log("four_hour", Call("rank"))
  /\ \/ End("four_hour", "error") /\ UNCHANGED <<ranked_opportunities, idx>>
     \/ \E r \in RankedLists(n) :
          /\ ranked_opportunities' = [ranked_opportunities EXCEPT !["four_hour"] = r]
          /\ idx' = [idx EXCEPT !["four_hour"] = 1]
          /\ Goto("four_hour", "loop")
          /\ UNCHANGED outcome
  /\ UNCHANGED <<sched, channel, market_data, analyses, altcoin_count, detections,
                 coin, cmd, globals>>

\* The key of the hourly job written by the four-hour job.
FourHourKeyCopied == "hourly"

\* last_analysis_time["four_hour"]
FourHourKey == "four_hour"

\* The loop over the premium alerts; after it, last_analysis_time["four_hour"].
FourHourLoop(T) ==
  /\ pc["four_hour"] = "loop"
  /\ LET list == Premium(ranked_opportunities["four_hour"])
         i == idx["four_hour"]
     IN \/ /\ i > Len(list)
           /\ now' = Clock(T)
           /\ last_analysis_time' = Put(last_analysis_time, FourHourKey, Clock(T))
           /\ End("four_hour", "ok")
           /\ UNCHANGED trace
        \/ /\ i <= Len(list)
           /\ Log("four_hour", Msg("premium", list[i].symbol))
           /\ Goto("four_hour", "premium_sleep")
           /\ UNCHANGED <<outcome, last_analysis_time, now>>
        \/ /\ i <= Len(list)
           /\ Log("four_hour", Failed("premium"))
           /\ End("four_hour", "error")
           /\ UNCHANGED <<last_analysis_time, now>>
  /\ UNCHANGED <<sched, channel, market_data, analyses, lists, detections, coin, cmd,
                 start_time>>

FourHourPremiumSleep ==
  /\ pc["four_hour"] = "premium_sleep"
  /\ Log("four_hour", Sleep(FourHourDelay))
  /\ idx' = [idx EXCEPT !["four_hour"] = @ + 1]
  /\ Goto("four_hour", "loop")
  /\ UNCHANGED <<sched, outcome, channel, market_data, analyses, ranked_opportunities,
                 altcoin_count, detections, coin, cmd, globals>>

\* ------------------------------------------------------- volume monitor

VolumeLevels == {SpikeThreshold - 1, SpikeThreshold}
VolumeAlert(i, v) == [symbol |-> "VOL" \o ToString(i), volume_increase |-> v]
WhaleAlert(i) == [symbol |-> "WHALE" \o ToString(i)]

\* What detect_volume_spikes may return.
VolumeLists(n) ==
  UNION {{[i \in 1..k |-> VolumeAlert(i, f[i])] : f \in [1..k -> VolumeLevels]} : k \in 0..n}
\* What detect_whale_movements may return.
WhaleLists(n) == {[i \in 1..k |-> WhaleAlert(i)] : k \in 0..n}

\* The threshold compared with > instead of >=.
IsSpikeStrict(alert) == alert.volume_increase > SpikeThreshold

\* if alert['volume_increase'] >= 300:
IsSpike(alert) == alert.volume_increase >= SpikeThreshold

VolumeStart == GetChannel("volume", "detect_volume")

VolumeDetect(n) ==
  /\ pc["volume"] = "detect_volume"
  /\ Log("volume", Call("detect_volume_spikes"))
  /\ \/ End("volume", "error") /\ UNCHANGED <<volume_alerts, idx>>
     \/ \E a \in VolumeLists(n) :
          /\ volume_alerts' = a
          /\ idx' = [idx EXCEPT !["volume"] = 1]
          /\ Goto("volume", "volume_loop")
          /\ UNCHANGED outcome
  /\ UNCHANGED <<sched, channel, market_data, analyses, ranked_opportunities,
                 altcoin_count, whale_alerts, coin, cmd, globals>>

VolumeLoop ==
  /\ pc["volume"] = "volume_loop"
  /\ LET i == idx["volume"]
     IN \/ /\ i > Len(volume_alerts)
           /\ Goto("volume", "detect_whale")
           /\ UNCHANGED <<trace, outcome, idx>>
        \/ /\ i <= Len(volume_alerts)
           /\ ~IsSpike(volume_alerts[i])
           /\ idx' = [idx EXCEPT !["volume"] = i + 1]
           /\ UNCHANGED <<pc, trace, outcome>>
        \/ /\ i <= Len(volume_alerts)
           /\ IsSpike(volume_alerts[i])
           /\ \/ /\ Log("volume", Msg("volume_spike", volume_alerts[i].symbol))
                 /\ idx' = [idx EXCEPT !["volume"] = i + 1]
                 /\ UNCHANGED <<pc, outcome>>
              \/ /\ Log("volume", Failed("volume_spike"))
                 /\ End("volume", "error")
                 /\ UNCHANGED idx
  /\ UNCHANGED <<sched, channel, market_data, analyses, ranked_opportunities,
                 altcoin_count, detections, coin, cmd, globals>>

WhaleDetect(n) ==
  /\ pc["volume"] = "detect_whale"
  /\ Log("volume", Call("detect_whale_movements"))
  /\ \/ End("volume", "error") /\ UNCHANGED <<whale_alerts, idx>>
     \/ \E w \in WhaleLists(n) :
          /\ whale_alerts' = w
          /\ idx' = [idx EXCEPT !["volume"] = 1]
          /\ Goto("volume", "whale_loop")
          /\ UNCHANGED outcome
  /\ UNCHANGED <<sched, channel, market_data, analyses, ranked_opportunities,
                 altcoin_count, volume_alerts, coin, cmd, globals>>

WhaleLoop ==
  /\ pc["volume"] = "whale_loop"
  /\ LET i == idx["volume"]
     IN \/ /\ i > Len(whale_alerts)
           /\ End("volume", "ok")
           /\ UNCHANGED <<trace, idx>>
        \/ /\ i <= Len(whale_alerts)
           /\ Log("volume", Msg("whale", whale_alerts[i].symbol))
           /\ idx' = [idx EXCEPT !["volume"] = i + 1]
           /\ UNCHANGED <<pc, outcome>>
        \/ /\ i <= Len(whale_alerts)
           /\ Log("volume", Failed("whale"))
           /\ End("volume", "error")
           /\ UNCHANGED idx
  /\ UNCHANGED <<sched, channel, market_data, analyses, ranked_opportunities,
                 altcoin_count, detections, coin, cmd, globals>>

\* ----------------------------------------------------- analisis command

\* coin.upper()
Upper(c) == IF c = "btc" THEN "BTC" ELSE c

\* for i, opportunity in enumerate(ranked_opportunities[:3], 1)
Opportunities(list) == Top(list, ManualLimit)

\* The command is invoked; its first await is the send of the notice.
ManualStart ==
  /\ pc["manual"] = "idle"
  /\ \E c \in CoinArgs : coin' = c
  /\ Goto("manual", "notice")
  /\ UNCHANGED <<sched, outcome, trace, channel, market_data, analyses, lists, detections,
                 cmd, globals>>

\* A send of the command at position l: delivered, or it raises into the handler.
ManualSend(l, kind, symbol, next, o) ==
  /\ pc["manual"] = l
  /\ \/ /\ Log("manual", Msg(kind, symbol))
        /\ IF next = "done" THEN End("manual", o)
           ELSE Goto("manual", next) /\ UNCHANGED outcome
     \/ /\ Log("manual", Failed(kind))
        /\ Goto("manual", "handler")
        /\ UNCHANGED outcome
  /\ UNCHANGED <<sched, channel, market_data, analyses, lists, detections, coin, cmd, globals>>

\* An awaited collaborator of the command at position l: it raises or returns.
ManualCall(l, next) ==
  /\ pc["manual"] = l
  /\ Log("manual", Call(l))
  /\ \/ Goto("manual", "handler")
     \/ Goto("manual", next)
  /\ UNCHANGED <<sched, outcome, channel, market_data, analyses, lists, detections,
                 coin, cmd, globals>>

ManualNotice == ManualSend("notice", "analyzing", "-", "fetch", "none")

ManualFetch ==
  /\ pc["manual"] = "fetch"
  /\ Log("manual", Call("fetch"))
  /\ \/ /\ Goto("manual", "handler")
        /\ UNCHANGED <<market_data, coin>>
     \/ \E m \in Snapshots :
          /\ market_data' = [market_data EXCEPT !["manual"] = m]
          /\ coin' = IF m # {} /\ coin # NoCoin THEN Upper(coin) ELSE coin
          /\ Goto("manual", IF m = {} THEN "unavailable"
                            ELSE IF coin = NoCoin THEN "john"
                            ELSE IF Upper(coin) \in m THEN "deep"
                            ELSE "not_found")
  /\ UNCHANGED <<sched, outcome, channel, analyses, lists, detections, cmd, globals>>

ManualUnavailable == ManualSend("unavailable", "fetch_error", "-", "done", "unavailable")
ManualDeep == ManualCall("deep", "deep_send")
ManualDeepSend == ManualSend("deep_send", "analysis", coin, "done", "ok")
ManualNotFound == ManualSend("not_found", "not_found", coin, "done", "not_found")
ManualJohn == ManualCall("john", "alpha")
ManualAlpha == ManualCall("alpha", "rank")

ManualRank(n) ==
  /\ pc["manual"] = "rank"
  /\ Log("manual", Call("rank"))
  /\ \/ /\ Goto("manual", "handler")
        /\ UNCHANGED <<ranked_opportunities, idx>>
     \/ \E r \in RankedLists(n) :
          /\ ranked_opportunities' = [ranked_opportunities EXCEPT !["manual"] = r]
          /\ idx' = [idx EXCEPT !["manual"] = 1]
          /\ Goto("manual", "loop")
  /\ UNCHANGED <<sched, outcome, channel, market_data, analyses, altcoin_count,
                 detections, coin, cmd, globals>>

\* await ctx.send(embed=embed); if i < 3: await asyncio.sleep(2)
ManualLoop ==
  /\ pc["manual"] = "loop"
  /\ LET list == Opportunities(ranked_opportunities["manual"])
         i == idx["manual"]
     IN \/ /\ i > Len(list)
           /\ End("manual", "ok")
           /\ UNCHANGED <<trace, idx>>
        \/ /\ i <= Len(list)
           /\ Log("manual", Msg("opportunity", list[i].symbol))
           /\ IF i < ManualLimit
              THEN Goto("manual", "pause") /\ UNCHANGED idx
              ELSE idx' = [idx EXCEPT !["manual"] = i + 1] /\ UNCHANGED pc
           /\ UNCHANGED outcome
        \/ /\ i <= Len(list)
           /\ Log("manual", Failed("opportunity"))
           /\ Goto("manual", "handler")
           /\ UNCHANGED <<outcome, idx>>
  /\ UNCHANGED <<sched, channel, market_data, analyses, ranked_opportunities,
                 altcoin_count, detections, coin, cmd, globals>>

ManualPause ==
  /\ pc["manual"] = "pause"
  /\ Log("manual", Sleep(ManualDelay))
  /\ idx' = [idx EXCEPT !["manual"] = @ + 1]
  /\ Goto("manual", "loop")
  /\ UNCHANGED <<sched, outcome, channel, market_data, analyses, ranked_opportunities,
                 altcoin_count, detections, coin, cmd, globals>>

\* except Exception as e: await ctx.send(...): a failure of this send goes to
\* on_command_error.
ManualHandler ==
  /\ pc["manual"] = "handler"
  /\ \/ Log("manual", Msg("error", "-")) /\ End("manual", "error")
     \/ /\ Log("manual", Failed("error"))
        /\ Goto("manual", "command_error")
        /\ UNCHANGED outcome
  /\ UNCHANGED <<sched, channel, market_data, analyses, lists, detections, coin, cmd, globals>>

\* on_command_error, else branch: one more send, whose failure the library logs.
OnCommandError ==
  /\ pc["manual"] = "command_error"
  /\ \/ Log("manual", Msg("command_error", "-"))
     \/ Log("manual", Failed("command_error"))
  /\ End("manual", "error")
  /\ UNCHANGED <<sched, channel, market_data, analyses, lists, detections, coin, cmd, globals>>

\* ------------------------------------------- top, alerts, status commands

\* A ctx.send of command p at position l: delivered, and the command goes to
\* next (returning with o when next is "done"); or it raises, to the command's
\* except block or out of the command to on_command_error, whichever fail is.
CtxSend(p, l, kind, next, o, fail) ==
  /\ pc[p] = l
  /\ \/ /\ Log(p, Msg(kind, "-"))
        /\ IF next = "done" THEN End(p, o) ELSE Goto(p, next) /\ UNCHANGED outcome
     \/ /\ Log(p, Failed(kind))
        /\ IF fail = "done" THEN End(p, "error") ELSE Goto(p, fail) /\ UNCHANGED outcome
  /\ UNCHANGED <<sched, channel, market_data, analyses, lists, detections, coin, cmd,
                 globals>>

\* on_command_error for an exception that left command p: the else branch,
\* one send; a failure of that send is logged by the library.
CommandError(p) == CtxSend(p, "command_error", "command_error", "done", "error", "done")

\* Arguments of the top command: the default, another timeframe the data
\* has, and one it has not.
TimeframeArgs == {"24h", "7d", "1y"}
\* timeframe_key = f"percent_change_{timeframe}"
TimeframeKey(tf) == "percent_change_" \o tf

\* x[1].get(timeframe_key, 0)
Get(data, key) == IF key \in DOMAIN data THEN data[key] ELSE 0

\* The shapes of the snapshots handed to the top command: changes rising with
\* the position, falling below zero, going up and down with ties, all alike.
Shapes == 1..4
Change(shape, i) ==
  CASE shape = 1 -> i
    [] shape = 2 -> 0 - i
    [] shape = 3 -> ((i * 7) % 5) - 2
    [] OTHER -> 1
\* The data of the i-th symbol: its 7d change always, its 24h change unless
\* the source left it out.
TopData(shape, i) ==
  [k \in (IF shape \in {2, 3} /\ i % 3 = 0 THEN {} ELSE {"percent_change_24h"})
          \cup {"percent_change_7d"} |->
     IF k = "percent_change_24h" THEN Change(shape, i) ELSE 0 - Change(shape, i)]
TopCoin(shape, i) == [symbol |-> "C" \o ToString(i), data |-> TopData(shape, i)]

\* What the market fetch may return to the top command: market_data.items(),
\* up to n symbols.
TopSnapshots(n) ==
  UNION {{[i \in 1..len |-> TopCoin(shape, i)] : shape \in Shapes} : len \in 0..n}

\* The sort without reverse=True.
AheadAscending(a, b) == a <= b

\* sorted(..., reverse=True): an item of key a already placed stays ahead of a
\* later item of key b when a >= b; the sort is stable.
Ahead(a, b) == a >= b

Insert(list, x, key) ==
  LET c == Cardinality({j \in 1..Len(list) :
                          Ahead(Get(list[j].data, key), Get(x.data, key))})
  IN SubSeq(list, 1, c) \o <<x>> \o SubSeq(list, c + 1, Len(list))

\* sorted(market_data.items(), key=lambda x: x[1].get(timeframe_key, 0), reverse=True)
RECURSIVE Sorted(_, _)
Sorted(items, key) ==
  IF items = <<>> THEN <<>>
  ELSE Insert(Sorted(SubSeq(items, 1, Len(items) - 1), key), items[Len(items)], key)

\* sorted(...)[:10]
TopGainers(items, tf) == Top(Sorted(items, TimeframeKey(tf)), TopLimit)

\* The command is invoked; its first await is the send of the notice.
TopStart ==
  /\ pc["top"] = "idle"
  /\ \E tf \in TimeframeArgs : timeframe' = tf
  /\ Goto("top", "notice")
  /\ UNCHANGED <<sched, outcome, trace, channel, market_data, analyses, lists, detections,
                 coin, alert_type, top_market_data, sorted_coins, embed, globals>>

TopNotice == CtxSend("top", "notice", "fetching", "fetch", "none", "handler")

\* The fetch and, when it returned something, the sort and the embed built
\* from it, up to the await of the send.
TopFetch(n) ==
  /\ pc["top"] = "fetch"
  /\ Log("top", Call("fetch"))
  /\ \/ /\ Goto("top", "handler")
        /\ UNCHANGED <<top_market_data, sorted_coins>>
     \/ \E m \in TopSnapshots(n) :
          /\ top_market_data' = m
          /\ IF m = <<>>
             THEN Goto("top", "unavailable") /\ UNCHANGED sorted_coins
             ELSE Goto("top", "send") /\ sorted_coins' = TopGainers(m, timeframe)
  /\ UNCHANGED <<sched, outcome, channel, market_data, analyses, lists, detections,
                 coin, alert_type, timeframe, embed, globals>>

TopUnavailable == CtxSend("top", "unavailable", "fetch_error", "done", "unavailable", "handler")
TopSend == CtxSend("top", "send", "top", "done", "ok", "handler")
\* except Exception as e: await ctx.send(...)
TopHandler == CtxSend("top", "handler", "error", "done", "error", "command_error")

\* valid_types = ["volume", "whale", "technical", "all"]
ValidTypes == {"volume", "whale", "technical", "all"}
\* Arguments of the alerts command: the default, a valid type, others.
AlertArgs == {"all", "whale", "bogus", "ALL"}

\* The command is invoked: the test of its argument, up to the await of a send.
AlertsStart ==
  /\ pc["alerts"] = "idle"
  /\ \E a \in AlertArgs :
       /\ alert_type' = a
       /\ Goto("alerts", IF a \notin ValidTypes THEN "usage" ELSE "updated")
  /\ UNCHANGED <<sched, outcome, trace, channel, market_data, analyses, lists, detections,
                 coin, timeframe, top_market_data, sorted_coins, embed, globals>>

\* The usage message without the return after it.
AlertsUsageNoReturn ==
  CtxSend("alerts", "usage", "invalid_type", "updated", "none", "command_error")

\* The command has no except block: a send that raises leaves it.
AlertsUsage == CtxSend("alerts", "usage", "invalid_type", "done", "invalid", "command_error")
AlertsUpdated == CtxSend("alerts", "updated", "updated", "done", "ok", "command_error")

\* The time of one entry reported for every entry.
ReportMixed(t) ==
  [k \in DOMAIN last_analysis_time |->
     t - last_analysis_time[CHOOSE k2 \in DOMAIN last_analysis_time : TRUE]]

\* time_diff = datetime.datetime.now() - last_time, for every entry
Report(t) == [k \in DOMAIN last_analysis_time |-> t - last_analysis_time[k]]

\* A status command that starts the jobs it finds stopped.
StatusStartRestarting(T) ==
  /\ pc["status"] = "idle"
  /\ now' = Clock(T)
  /\ embed' = [timestamp |-> Clock(T), uptime |-> start_time, last |-> Report(Clock(T)),
               tasks |-> running]
  /\ running' = [j \in Jobs |-> TRUE]
  /\ Goto("status", "send")
  /\ UNCHANGED <<active, outcome, trace, channel, market_data, analyses, lists, detections,
                 coin, alert_type, timeframe, top_market_data, sorted_coins,
                 last_analysis_time, start_time>>

\* The command is invoked: it builds its embed from bot.start_time,
\* last_analysis_time and the three is_running(), up to the await of the send.
StatusStart(T) ==
  /\ pc["status"] = "idle"
  /\ now' = Clock(T)
  /\ embed' = [timestamp |-> Clock(T), uptime |-> start_time, last |-> Report(Clock(T)),
               tasks |-> running]
  /\ Goto("status", "send")
  /\ UNCHANGED <<sched, outcome, trace, channel, market_data, analyses, lists, detections,
                 coin, alert_type, timeframe, top_market_data, sorted_coins,
                 last_analysis_time, start_time>>

StatusSend == CtxSend("status", "send", "status", "done", "ok", "command_error")

\* ---------------------------------------------------------------- on_ready

\* The order in which on_ready looks at the jobs.
JobOrder == <<"hourly", "four_hour", "volume">>

\* start() called whatever is_running() says.
StartDueAlways(r, j) == TRUE

\* if not job.is_running():
StartDue(r, j) == ~r[j]

\* The jobs on which on_ready would call start() while they run: Loop.start()
\* raises RuntimeError on such a job, which ends on_ready there.
Refused(r) == {i \in 1..3 : StartDue(r, JobOrder[i]) /\ r[JobOrder[i]]}

\* The jobs on_ready calls start() on, in order, up to the first refusal.
Started(r) ==
  LET reach(i) == \A k \in Refused(r) : i <= k
      pick(i) == IF StartDue(r, JobOrder[i]) /\ reach(i)
                 THEN <<Call(JobOrder[i])>> ELSE <<>>
  IN pick(1) \o pick(2) \o pick(3)

\* if not job.is_running(): job.start()
StartJobs(r) ==
  [j \in Jobs |-> IF \E i \in 1..Len(Started(r)) : Started(r)[i].symbol = j
                  THEN TRUE ELSE r[j]]

\* The event up to its await: start_time, the three starts, the channel lookup.
OnReady ==
  /\ pc["ready"] = "idle"
  /\ start_time' = TRUE
  /\ running' = StartJobs(running)
  /\ trace' = [trace EXCEPT !["ready"] = Started(running)]
  /\ IF Refused(running) # {}
     THEN End("ready", "start_error") /\ UNCHANGED channel
     ELSE \E c \in BOOLEAN :
            /\ channel' = [channel EXCEPT !["ready"] = c]
            /\ IF c THEN Goto("ready", "startup") /\ UNCHANGED outcome
               ELSE End("ready", "nochannel")
  /\ UNCHANGED <<active, market_data, analyses, lists, detections, coin, cmd,
                 last_analysis_time, now>>

\* The startup message; a failure of the send is logged by the library.
OnReadyStartup ==
  /\ pc["ready"] = "startup"
  /\ \/ Log("ready", Msg("online", "-")) /\ End("ready", "ok")
     \/ Log("ready", Failed("online")) /\ End("ready", "error")
  /\ UNCHANGED <<sched, channel, market_data, analyses, lists, detections, coin, cmd, globals>>

\* An event or command coroutine is over.
HandlerReturn(p) ==
  /\ p \in Commands \cup {"ready"}
  /\ pc[p] = "done"
  /\ pc' = [pc EXCEPT ![p] = "idle"]
  /\ NoLocals(p)
  /\ UNCHANGED <<sched, globals>>

\* ---------------------------------------------------------- specifications

\* No coroutine is between its first and its last step.
Quiet == \A p \in Procs : pc[p] = "idle"

\* At most one coroutine is in progress.
Single == \E p \in Procs : \A q \in Procs \ {p} : pc[q] = "idle"

\* A loop iteration or the ready event begins.
Begin == HourlyStart \/ FourHourStart \/ VolumeStart \/ OnReady

\* A job or event in progress takes its next step; n bounds the ranked lists,
\* a the detector results and T the clock the environment hands it.
JobStep(n, a, T) ==
  \/ HourlyFetch \/ HourlyUnavailable \/ HourlyJohn \/ HourlyAlpha
  \/ HourlyBtcReport \/ HourlyBtcSleep \/ HourlyRank(n) \/ HourlyLoop
  \/ HourlyAlertSleep \/ HourlySummary(T) \/ HourlyHandler
  \/ FourHourFetch \/ FourHourJohn \/ FourHourAlpha \/ FourHourRank(n)
  \/ FourHourLoop(T) \/ FourHourPremiumSleep
  \/ VolumeDetect(a) \/ VolumeLoop \/ WhaleDetect(a) \/ WhaleLoop
  \/ OnReadyStartup
  \/ \E j \in Jobs : LoopReturn(j) \/ LoopError(j)
  \/ HandlerReturn("ready")

\* The analisis command in progress takes its next step.
ManualStep(n) ==
  \/ ManualNotice \/ ManualFetch \/ ManualUnavailable \/ ManualDeep
  \/ ManualDeepSend \/ ManualNotFound \/ ManualJohn \/ ManualAlpha
  \/ ManualRank(n) \/ ManualLoop \/ ManualPause \/ ManualHandler \/ OnCommandError
  \/ HandlerReturn("manual")

\* The top, alerts or status command is invoked.
CommandBegin(T) == TopStart \/ AlertsStart \/ StatusStart(T)

\* One of these commands in progress takes its next step; n bounds the
\* snapshot of the top command.
CommandStep(n) ==
  \/ TopNotice \/ TopFetch(n) \/ TopUnavailable \/ TopSend \/ TopHandler
  \/ AlertsUsage \/ AlertsUpdated \/ StatusSend
  \/ \E p \in Commands \ {"manual"} : CommandError(p) \/ HandlerReturn(p)

\* The scheduler: the ready event and the three loops.  A coroutine begins
\* while at most one other is in progress, and the two interleave in every
\* way, on small inputs.
Next == (Single /\ Begin) \/ JobStep(SmallRanked, SmallAlerts, SmallTime)

Spec == Init /\ [][Next]_vars

\* One coroutine at a time, the command included, on the full inputs: the
\* runs share no local, so a run takes the same steps here as between the
\* steps of the others.
NextRun ==
  \/ Quiet /\ (Begin \/ ManualStart \/ CommandBegin(MaxTime))
  \/ JobStep(MaxRanked, MaxAlerts, MaxTime)
  \/ ManualStep(MaxRanked)
  \/ CommandStep(MaxCoins)

SpecRun == Init /\ [][NextRun]_vars

\* No job or event is between its first and its last step.
JobsQuiet == \A p \in Jobs \cup {"ready"} : pc[p] = "idle"

\* The commands among the jobs, on small inputs, with a clock that lets a job
\* record a later time while a command is waiting.  The status command
\* begins at any point of any other coroutine and the two interleave in every
\* way; at most one job or event is in progress; the other commands begin
\* between the runs.
NextCommands ==
  \/ JobsQuiet /\ (\A p \in Commands \ {"status"} : pc[p] = "idle") /\ Begin
  \/ Quiet /\ (ManualStart \/ TopStart \/ AlertsStart)
  \/ StatusStart(CommandTime)
  \/ JobStep(SmallRanked, SmallAlerts, CommandTime)
  \/ ManualStep(SmallRanked)
  \/ CommandStep(SmallCoins)

SpecCommands == Init /\ [][NextCommands]_vars

\* ------------------------------------------------------------------ claims

RankJobs == {"hourly", "four_hour"}

\* The coroutine has returned or raised, and its frame is still there.
Ended(p) == pc[p] \in {"done", "raised"}

\* The names of the collaborators a run called, in order.
Calls(log) == [i \in 1..Len(OfKind(log, "call")) |-> OfKind(log, "call")[i].symbol]

\* The sends of a run that failed.
Failures(log) == OfKind(log, "failed")

IsAlt(o) == o.symbol # "BTC"
IsChannelUse(e) == e.kind # "call"
IsNotice(e) == e.kind \in {"unavailable", "error"}

Least(a, b) == IF a < b THEN a ELSE b

\* last_analysis_time[k] is not what it was: set, removed or another time.
Changed(k) ==
  \/ (k \in DOMAIN last_analysis_time) # (k \in DOMAIN last_analysis_time')
  \/ /\ k \in DOMAIN last_analysis_time
     /\ k \in DOMAIN last_analysis_time'
     /\ last_analysis_time'[k] # last_analysis_time[k]

\* C1. No failure of a run leaves the job body, whatever raised it, and once
\* the jobs are started every job stays scheduled after any failing run.
ClaimC1 ==
  \A j \in Jobs : pc[j] # "raised" /\ (start_time => running[j])

\* C2. The last-success time of the hourly and of the four-hour job changes
\* only in the step that completes a run of that job without any failure, so
\* it is unset until such a run and every aborted run leaves it as it was.
ThmC2 ==
  [][\A k \in RankJobs :
       Changed(k) => /\ pc[k] \notin {"idle", "done", "raised", "handler"}
                     /\ pc'[k] = "done"
                     /\ outcome'[k] = "ok"
                     /\ Failures(trace'[k]) = <<>>
                     /\ market_data[k] \notin {NotFetched, {}}]_vars

\* A run of the hourly job has aborted on an empty fetch or on a failure, and
\* the times earlier runs of both jobs recorded are still there.
WitC2 ==
  /\ pc["hourly"] = "done"
  /\ outcome["hourly"] \in {"unavailable", "error"}
  /\ DOMAIN last_analysis_time = RankJobs

\* The messages C3 expects of a complete hourly run, from the run's inputs.
ExpectedHourly ==
  LET alts == SelectSeq(ranked_opportunities["hourly"], IsAlt)
      report == /\ "BTC" \in market_data["hourly"]
                /\ ("BTC" \in john_results \/ "BTC" \in alpha_results)
  IN (IF report THEN <<Msg("btc_report", "BTC")>> ELSE <<>>)
       \o [i \in 1..Least(5, Len(alts)) |-> Msg("alert", alts[i].symbol)]
       \o <<Msg("summary", "-")>>

\* C3. An hourly run with a non-empty snapshot and no failure sends the BTC
\* report (iff BTC is in the snapshot and an analysis has a result for it),
\* then the first min(5, n) of the n non-BTC ranked opportunities in the
\* ranker's order, then one overview, and nothing else.
ThmC3 ==
  (pc["hourly"] = "done" /\ outcome["hourly"] = "ok")
    => /\ market_data["hourly"] \notin {NotFetched, {}}
       /\ Sends(trace["hourly"]) = ExpectedHourly

\* BTC and six altcoins are ranked: one report, five alerts, one overview.
WitC3 ==
  /\ pc["hourly"] = "done"
  /\ outcome["hourly"] = "ok"
  /\ Len(ranked_opportunities["hourly"]) = 7
  /\ Len(SelectSeq(ranked_opportunities["hourly"], IsAlt)) = 6
  /\ Len(Sends(trace["hourly"])) = 7
  /\ Sends(trace["hourly"])[1].kind = "btc_report"
  /\ Sends(trace["hourly"])[6].kind = "alert"
  /\ Sends(trace["hourly"])[7].kind = "summary"

\* C4 as stated. After an empty fetch the hourly run has sent the one
\* "data unavailable" message and nothing else, has called nothing but the
\* fetch, and no step of it changes last_analysis_time.
ClaimC4 ==
  /\ [](Ended("hourly") /\ market_data["hourly"] = {}
          => /\ Sends(trace["hourly"]) = <<Msg("unavailable", "-")>>
             /\ Calls(trace["hourly"]) = <<"fetch">>)
  /\ [][market_data["hourly"] = {} \/ market_data'["hourly"] = {}
          => last_analysis_time' = last_analysis_time]_vars

\* What an hourly run may have done when it ends after an empty fetch.
EmptyFetchTraces ==
  { <<Call("fetch"), Msg("unavailable", "-")>>,
    <<Call("fetch"), Failed("unavailable"), Msg("error", "-")>>,
    <<Call("fetch"), Failed("unavailable"), Failed("error")>> }

\* C4 as amended. After an empty fetch the hourly run calls no analysis and no
\* ranker, changes no last_analysis_time, and tries the "data unavailable"
\* message once: delivered, it is the run's only message; failed, the one
\* other message the run tries is the handler's error notification.
ThmC4 ==
  /\ [](Ended("hourly") /\ market_data["hourly"] = {}
          => trace["hourly"] \in EmptyFetchTraces)
  /\ [][market_data["hourly"] = {} \/ market_data'["hourly"] = {}
          => last_analysis_time' = last_analysis_time]_vars

\* The "data unavailable" send has failed and the error notification was sent,
\* in a run that comes after a successful one.
WitC4 ==
  /\ pc["hourly"] = "done"
  /\ market_data["hourly"] = {}
  /\ trace["hourly"] = <<Call("fetch"), Failed("unavailable"), Msg("error", "-")>>
  /\ "hourly" \in DOMAIN last_analysis_time

\* C5. A failed send of an alert in the loop of the hourly or of the
\* four-hour job does not abort the run: the run is neither in its error
\* handler nor ended in error.
ClaimC5 ==
  \A j \in RankJobs :
    (\E i \in 1..Len(trace[j]) : trace[j][i] \in {Failed("alert"), Failed("premium")})
      => pc[j] \notin {"handler", "raised"} /\ outcome[j] # "error"

\* C6. At every point of every run: at most 5 hourly alerts and none for BTC,
\* at most 3 premium alerts, at most 3 opportunity alerts of the command.
ThmC6 ==
  /\ Len(OfKind(trace["hourly"], "alert")) <= 5
  /\ \A i \in 1..Len(trace["hourly"]) :
       trace["hourly"][i].kind = "alert" => trace["hourly"][i].symbol # "BTC"
  /\ Len(OfKind(trace["four_hour"], "premium")) <= 3
  /\ Len(OfKind(trace["manual"], "opportunity")) <= 3

\* Six altcoins were ranked with BTC among the first five places: BTC was
\* passed over, five alerts went out and the loop has ended without a sixth.
WitC6 ==
  /\ pc["hourly"] = "summary"
  /\ Len(ranked_opportunities["hourly"]) = 7
  /\ \E i \in 1..5 : ranked_opportunities["hourly"][i].symbol = "BTC"
  /\ Len(OfKind(trace["hourly"], "alert")) = 5

ClaimC8 ==
  \A j \in Jobs :
    (Ended(j) /\ channel[j] /\ outcome[j] \in {"unavailable", "error"}
       /\ Failures(trace[j]) = <<>>)
      => /\ Len(SelectSeq(trace[j], IsNotice)) = 1
         /\ \A a, b \in 1..Len(Calls(trace[j])) :
              Calls(trace[j])[a] = Calls(trace[j])[b] => a = b

\* C9. After an empty fetch the four-hour run has sent one "data unavailable"
\* message, has called nothing but the fetch, and ends without a recorded time
\* of this run.
ClaimC9 ==
  (Ended("four_hour") /\ market_data["four_hour"] = {})
    => /\ Sends(trace["four_hour"]) = <<Msg("unavailable", "-")>>
       /\ Calls(trace["four_hour"]) = <<"fetch">>
       /\ outcome["four_hour"] # "ok"

\* Whatever the run does on the channel after a message it has sent, another
\* send or the attempt of one, it first waits d; and every wait is one of d.
Paced(log, d) ==
  LET ev == SelectSeq(log, IsChannelUse)
  IN /\ \A i \in 1..(Len(ev) - 1) : IsSend(ev[i]) => ev[i + 1] = Sleep(d)
     /\ \A i \in 1..Len(ev) : ev[i].kind = "sleep" => ev[i].delay = d

\* C10. At every point of an hourly or four-hour run, a message sent to the
\* channel and the next send of the run have a wait between them: of 2 in the
\* hourly job, of 3 in the four-hour job, which is the longer one.
ThmC10 ==
  /\ Paced(trace["hourly"], 2)
  /\ Paced(trace["four_hour"], 3)
  /\ FourHourDelay > HourlyDelay

\* A complete hourly run with a report, two alerts and the overview.
WitC10 ==
  /\ pc["hourly"] = "done"
  /\ outcome["hourly"] = "ok"
  /\ Len(Sends(trace["hourly"])) = 4
  /\ Len(OfKind(trace["hourly"], "sleep")) = 3

\* Two messages of a log with nothing between them on the channel.
BackToBack(log) ==
  LET ev == SelectSeq(log, IsChannelUse)
  IN \E i \in 1..(Len(ev) - 1) : IsSend(ev[i]) /\ IsSend(ev[i + 1])

\* C11. At every point of a run of the volume monitor, two consecutive alerts
\* on the channel, volume-spike alerts and whale alerts alike, have a pacing
\* wait between them: no two messages of the run go out back to back.
ClaimC11 == ~BackToBack(trace["volume"])

\* The step in which on_ready runs from its entry to its await.
ReadyStarts == pc["ready"] = "idle" /\ pc'["ready"] # "idle"

ThmC13 ==
  [][\A k \in RankJobs :
       /\ k \in DOMAIN last_analysis_time =>
            /\ k \in DOMAIN last_analysis_time'
            /\ last_analysis_time'[k] >= last_analysis_time[k]
       /\ Changed(k) =>
            /\ pc[k] = (IF k = "hourly" THEN "summary" ELSE "loop")
            /\ pc'[k] = "done" /\ outcome'[k] = "ok"
            /\ Calls(trace'[k]) = <<"fetch", "john", "alpha", "rank">>
            /\ Failures(trace'[k]) = <<>>
            /\ last_analysis_time'[k] = now' /\ now' >= now]_vars

\* The hourly job has completed a second run after a four-hour run: the time
\* it had recorded is replaced by a later one.
WitC13 ==
  /\ pc["hourly"] = "done" /\ outcome["hourly"] = "ok"
  /\ DOMAIN last_analysis_time = RankJobs
  /\ last_analysis_time["four_hour"] = 2
  /\ last_analysis_time["hourly"] = 3

\* The messages a volume-monitor run owes for what its detectors returned:
\* the alerts of at least 300 in the detector's order, then every whale alert.
ExpectedVolume ==
  LET spikes == SelectSeq(volume_alerts, LAMBDA a : a.volume_increase >= 300)
  IN [i \in 1..Len(spikes) |-> Msg("volume_spike", spikes[i].symbol)]
     \o [i \in 1..Len(whale_alerts) |-> Msg("whale", whale_alerts[i].symbol)]

IsPrefix(a, b) == Len(a) <= Len(b) /\ a = SubSeq(b, 1, Len(a))

StepOf(p) == pc'[p] # pc[p]

\* What a step of command p leaves alone: the recorded times, the schedule
\* of every job and its runs, the start time, and every other coroutine.
Apart(p) ==
  /\ UNCHANGED <<last_analysis_time, running, active, start_time>>
  /\ \A q \in Procs \ {p} :
       pc'[q] = pc[q] /\ trace'[q] = trace[q] /\ outcome'[q] = outcome[q]

\* C15. Every step of the status command, whatever the jobs are doing,
\* leaves last_analysis_time, the running state of every job, the runs in
\* progress and every other coroutine as they are; all it does is send to
\* the requester: the status message, the only message when that send is
\* delivered, or after a failed send the one message of on_command_error.
ThmC15 ==
  /\ [](LET log == trace["status"]
        IN /\ \A i \in 1..Len(log) :
                /\ log[i].kind \in {"status", "failed", "command_error"}
                /\ log[i].kind = "failed" => log[i].symbol \in {"status", "command_error"}
           /\ Len(Sends(log)) <= 1
           /\ (pc["status"] = "done" /\ outcome["status"] = "ok") =>
                log = <<Msg("status", "-")>>)
  /\ [][StepOf("status") => Apart("status")]_vars

\* The status message went out while an hourly run was waiting for a send
\* and a four-hour run had recorded its time.
WitC15 ==
  /\ pc["status"] = "done" /\ outcome["status"] = "ok"
  /\ pc["hourly"] = "summary"
  /\ "four_hour" \in DOMAIN last_analysis_time
  /\ embed.tasks = [j \in Jobs |-> TRUE]

\* The alerts command in progress has a type that is none of the four.
InvalidType == alert_type \notin {NoArg, "volume", "whale", "technical", "all"}

\* C16, as stated: the alerts command with an invalid type has sent, when it
\* ends, the usage message and nothing else.
ClaimC16 ==
  (pc["alerts"] = "done" /\ InvalidType) =>
     trace["alerts"] = <<Msg("invalid_type", "-")>>

\* C16. The alerts command with an invalid type tries the usage message
\* once: delivered, it is all the command sends; when that send raises,
\* on_command_error tries one error message to the requester.  No step of the
\* command touches a job, a recorded time or another coroutine, and the
\* command holds no alert configuration to change.
ThmC16 ==
  /\ [](InvalidType =>
          /\ trace["alerts"] \in
               { <<>>,
                 <<Msg("invalid_type", "-")>>,
                 <<Failed("invalid_type")>>,
                 <<Failed("invalid_type"), Msg("command_error", "-")>>,
                 <<Failed("invalid_type"), Failed("command_error")>> }
          /\ pc["alerts"] = "done" => Len(trace["alerts"]) >= 1
          /\ (pc["alerts"] = "done" /\ outcome["alerts"] # "error") =>
               trace["alerts"] = <<Msg("invalid_type", "-")>>)
  /\ [][StepOf("alerts") =>
         /\ Apart("alerts")
         /\ UNCHANGED <<now, channel, market_data, analyses, lists, detections, coin,
                        timeframe, top_market_data, sorted_coins, embed>>]_vars

\* The usage message was refused and on_command_error reported to the
\* requester instead.
WitC16 ==
  /\ pc["alerts"] = "done"
  /\ alert_type = "bogus"
  /\ trace["alerts"] = <<Failed("invalid_type"), Msg("command_error", "-")>>

\* The percent change of an item for the timeframe asked, 0 when it has none.
ChangeOf(c) ==
  LET k == "percent_change_" \o timeframe
  IN IF k \in DOMAIN c.data THEN c.data[k] ELSE 0

\* C17. Once the top command has a non-empty snapshot of n symbols, for any
\* timeframe, its list holds min(10, n) items of the snapshot, no symbol
\* twice, in descending order of their percent change for that timeframe
\* with a missing value counted as 0, and no symbol left out has a higher
\* change than a listed one; the command that ends well has sent its notice
\* and then this list.
ThmC17 ==
  top_market_data # <<>> =>
    LET m == top_market_data
        l == sorted_coins
    IN /\ Len(l) = Least(10, Len(m))
       /\ \A i \in 1..Len(l) : \E j \in 1..Len(m) : l[i] = m[j]
       /\ \A i, j \in 1..Len(l) : i # j => l[i].symbol # l[j].symbol
       /\ \A i, j \in 1..Len(l) : i < j => ChangeOf(l[i]) >= ChangeOf(l[j])
       /\ \A j \in 1..Len(m) :
            (\A i \in 1..Len(l) : l[i] # m[j]) =>
               \A i \in 1..Len(l) : ChangeOf(l[i]) >= ChangeOf(m[j])
       /\ (pc["top"] = "done" /\ outcome["top"] = "ok") =>
            trace["top"] = <<Msg("fetching", "-"), Call("fetch"), Msg("top", "-")>>

\* The list of the command sent for a snapshot of 15 symbols, all of them
\* falling but five that have no 24h value: those five lead the ten listed.
WitC17 ==
  /\ pc["top"] = "done" /\ outcome["top"] = "ok"
  /\ timeframe = "24h"
  /\ Len(top_market_data) = 15
  /\ Len(sorted_coins) = 10
  /\ \A i \in 1..5 : DOMAIN sorted_coins[i].data = {"percent_change_7d"}
  /\ sorted_coins[6].symbol = "C1"

\* The altcoin loop of the hourly run has passed over an opportunity for BTC
\* that the ranker made of an analysis result for BTC.
BtcSkipped ==
  /\ "BTC" \in john_results \cup alpha_results
  /\ \E i \in 1..Len(ranked_opportunities["hourly"]) :
       /\ i < idx["hourly"]
       /\ ranked_opportunities["hourly"][i].symbol = "BTC"

\* C18. Whenever the altcoin loop of an hourly run has skipped a ranked
\* opportunity for BTC, the run has sent its BTC report before, also when
\* the snapshot holds no BTC.
ClaimC18 == BtcSkipped => OfKind(trace["hourly"], "btc_report") # <<>>

\* C19. In every interleaving, last_analysis_time holds no key but hourly and
\* four_hour; the entry of a job changes only in a step of that job, the one
\* that completes its run, in which no other coroutine moves; and no step of
\* the volume monitor, of on_ready or of a command changes any entry.
ThmC19 ==
  /\ [](DOMAIN last_analysis_time \subseteq {"hourly", "four_hour"})
  /\ [][/\ \A k \in RankJobs :
            Changed(k) => /\ StepOf(k)
                          /\ pc'[k] = "done" /\ outcome'[k] = "ok"
                          /\ \A q \in Procs \ {k} : pc'[q] = pc[q]
        /\ (\E p \in Commands \cup {"volume", "ready"} : StepOf(p)) =>
              last_analysis_time' = last_analysis_time]_vars

\* Both jobs have recorded a time, the hourly job after the four-hour job,
\* and a run of the four-hour job is in progress while the status command
\* waits for its send.
WitC19 ==
  /\ DOMAIN last_analysis_time = {"hourly", "four_hour"}
  /\ last_analysis_time["hourly"] > last_analysis_time["four_hour"]
  /\ pc["four_hour"] = "loop"
  /\ pc["status"] = "send"

\* The status command holds the embed it has built.
Holding == pc["status"] \in {"send", "command_error", "done"}

\* The time the embed reports for job k as that of its last run.
Reported(e, k) == e.timestamp - e.last[k]

\* C20. The status command takes its whole snapshot in one step, in which
\* nothing is written: the entries it reports are exactly those stored at
\* that moment, each with the time stored for that job, and the running
\* flags are those of the same moment.  While it waits for its send the
\* jobs go on and the snapshot stays as taken: an entry it reports may be
\* older than the one stored by now, never newer and never another job's.
ThmC20 ==
  /\ [](Holding =>
          \A k \in DOMAIN embed.last :
             /\ k \in DOMAIN last_analysis_time
             /\ Reported(embed, k) >= 1
             /\ Reported(embed, k) <= last_analysis_time[k])
  /\ [][/\ (pc["status"] = "idle" /\ pc'["status"] = "send") =>
            /\ UNCHANGED <<last_analysis_time, running>>
            /\ DOMAIN embed'.last = DOMAIN last_analysis_time
            /\ \A k \in DOMAIN last_analysis_time :
                 Reported(embed', k) = last_analysis_time[k]
            /\ embed'.tasks = running
            /\ embed'.uptime = start_time
        /\ (Holding /\ pc'["status"] # "idle") => embed' = embed]_vars

\* A stale snapshot: the status command waits for its send with the times
\* both jobs had recorded, and the hourly job has recorded a later one since.
WitC20 ==
  /\ pc["status"] = "send"
  /\ DOMAIN embed.last = {"hourly", "four_hour"}
  /\ Reported(embed, "hourly") = 1
  /\ Reported(embed, "four_hour") = 2
  /\ last_analysis_time["hourly"] = 2

====
